---- MODULE Spec2Model ----
(***************************************************************************)
(* Model of the frame fan-out and stream-lifecycle engine of               *)
(* rtsp-stream.js (the server part, lines 1-327 and 813-870).              *)
(*                                                                         *)
(* Every handler of the server runs to completion on the single event     *)
(* loop, so each handler is one action.  Timers are modelled as FIFO       *)
(* lists per duration (timers of equal duration fire in the order they     *)
(* were set): the 5 ms batch continuations in batchTimers, the 5000 ms     *)
(* restart timers in restartTimers.  Time advances in whole seconds (Tick).*)
(* The FrameSource (rtsp-ffmpeg) is an external library: start() and       *)
(* stop() either take effect or throw, and the producer emits 'data' and   *)
(* 'error' events while it runs and has listeners.                         *)
(***************************************************************************)
EXTENDS Integers, Sequences, FiniteSets, TLC

\* ---------------------------------------------------------------- bounds
MaxConns == 2          \* connections accepted in Spec
MaxFanClients == 11    \* connections accepted in FanoutSpec
MaxFanDisconnects == 1 \* disconnects in FanoutSpec
MaxBatchClients == 21  \* connections accepted in BatchSpec
MaxFrames == 2         \* frames produced
MaxErrors == 2         \* producer errors
MaxUpdates == 1        \* configuration updates
MaxConfigUpdates == 2  \* configuration updates in ConfigSpec
MaxPlayerFrames == 3  \* 'stream' events the player receives
MaxPlayerAge == 10500 \* ms the player's clocks count up to
MaxStatsConns == 1     \* connections accepted in StatsSpec

\* ------------------------------------------------------ program constants
MAX_QUEUE_SIZE == 3
MAX_CLIENTS_PER_FRAME == 10
RESTART_DELAY == 5     \* setTimeout(..., 5000), in seconds
LIVENESS_WINDOW == 5   \* secondsElapsed < 5 in getStreamStats
RESET_INTERVAL == 10   \* setInterval(..., 10000), in seconds
FRAME_TIMEOUT == 500   \* setTimeout(..., 500) of the player's 'stream' handler
STREAM_CHECK_INTERVAL == 5000 \* setInterval(..., 5000) of startStreamCheck
STALL_WINDOW == 5000   \* Date.now() - this.lastFrameTime > 5000
MIN_FRAME_SIZE == 100  \* blob.size < 100
FALLBACK_FPS == 30     \* activeConfig.frameRate || 30

VARIABLES
  activeConfig,   \* let activeConfig
  stream,         \* let stream: the number of the current FrameSource instance
  running,        \* the current instance's producer is running
  listening,      \* the current instance has the server's listeners attached
  activeClients,  \* const activeClients (a Set: insertion ordered)
  sockets,        \* io.sockets.sockets: ids of the connected sockets
  nextId,         \* the next fresh socket.id
  totalFrames,    \* let totalFrames
  frameQueues,    \* const frameQueues (Map clientId -> array of frames)
  batchTimers,    \* pending setTimeout(..., 5) continuations, in firing order
  restartTimers,  \* pending setTimeout(..., 5000) restart callbacks, in firing order
  streamLog,      \* per socket id: the 'stream' events emitted to it, in order
  calls,          \* the calls the last handler made on FrameSource / lifecycle functions
  emits,          \* the other events / responses the last handler sent
  lastEvent,      \* the handler that produced this state
  nErrors,        \* producer errors so far (bounds the model)
  nDisconnects,   \* disconnects so far (bounds the model)
  streamConfig,   \* the configuration the current FrameSource instance was built from
  clientConfig,   \* per socket id: the argument of the last 'config' event sent to it
  readyTimers,    \* pending setTimeout(..., 1000) 'ready' notifications
  frameCount,     \* let frameCount
  frameAge,       \* seconds since lastFrameTime, up to LIVENESS_WINDOW
  dataAge,        \* seconds since the last 'data' event, up to LIVENESS_WINDOW
  sinceReset,     \* seconds since lastCounterReset, up to RESET_INTERVAL
  player,         \* the fields of one RTSPPlayer object in a browser
  decodes,        \* frames whose createImageBitmap promise has not settled
  timeouts,       \* pending setTimeout(..., 500) callbacks: [id, age in ms]
  streamCheckInterval, \* ms since the stall check interval was set or last ran; -1: none
  sinceLastFrameTime,  \* ms since this.lastFrameTime, up to MaxPlayerAge
  sinceValid,     \* ms since the player last drew a decoded frame; -1: never
  sinceProcessing, \* ms since this.processingFrame last changed
  stalled,        \* the stall check has asked for a reconnect since the last drawn frame
  nextFrame,      \* the number of the next 'stream' event the player receives
  playerEvent     \* the player callback that produced this state

vars == <<activeConfig, stream, running, listening, activeClients, sockets, nextId,
          totalFrames, frameQueues, batchTimers, restartTimers, streamLog, calls,
          emits, lastEvent, nErrors, nDisconnects, streamConfig, clientConfig,
          readyTimers, frameCount, frameAge, dataAge, sinceReset,
          player, decodes, timeouts, streamCheckInterval, sinceLastFrameTime,
          sinceValid, sinceProcessing, stalled, nextFrame, playerEvent>>

\* the state of the server
serverVars == <<activeConfig, stream, running, listening, activeClients, sockets,
                nextId, totalFrames, frameQueues, batchTimers, restartTimers,
                streamLog, calls, emits, lastEvent, nErrors, nDisconnects,
                streamConfig, clientConfig, readyTimers, frameCount, frameAge,
                dataAge, sinceReset>>

\* the state of the player in the browser
playerVars == <<player, decodes, timeouts, streamCheckInterval, sinceLastFrameTime,
                sinceValid, sinceProcessing, stalled, nextFrame, playerEvent>>

\* the state of the statistics
statsVars == <<frameCount, frameAge, dataAge, sinceReset>>

\* ------------------------------------------------------------- helpers
Size(s) == Len(s)

SeqToSet(s) == {s[i] : i \in 1..Len(s)}

RECURSIVE Without(_, _)
\* Set.prototype.delete on the insertion-ordered set
Without(s, x) ==
  IF s = <<>> THEN <<>>
  ELSE IF Head(s) = x THEN Without(Tail(s), x)
  ELSE <<Head(s)>> \o Without(Tail(s), x)

CountOf(s, x) == Cardinality({i \in 1..Len(s) : s[i] = x})

\* ------------------------------------------------------- configuration
defaultConfig ==
  [frameRate |-> 15, resolution |-> "640x360", ffmpegOptions |-> "list"]

\* bodies of configuration updates (partial configurations)
ConfigInputs ==
  { [resolution |-> "1280x720"],
    [ffmpegOptions |-> "null"] }

\* { ...a, ...b }
Merge(a, b) ==
  [k \in DOMAIN a \cup DOMAIN b |-> IF k \in DOMAIN b THEN b[k] ELSE a[k]]

\* bodies of configuration updates that also carry a field the default lacks
ConfigSpecInputs == ConfigInputs \cup { [extra |-> "x"] }

\* body of a configuration update that sets the target frame rate to zero
RateInputs == { [frameRate |-> 0] }

\* the spread ...config.ffmpegOptions throws a TypeError on a non-iterable value
SpreadThrows(config) == config.ffmpegOptions = "null"

\* ------------------------------------------------------------ FrameSource
\* stream.start(): takes effect, or throws and changes nothing
StartEffect(isRunning, throws) == IF throws THEN isRunning ELSE TRUE

\* stream.stop(): takes effect, or throws and changes nothing
StopEffect(isRunning, throws) == IF throws THEN isRunning ELSE FALSE

\* The lifecycle part of the server state, as the record L:
\*   [stream, running, listening, config, calls, threw]
LifeState ==
  [stream |-> stream, running |-> running, listening |-> listening,
   config |-> streamConfig, calls |-> <<>>, threw |-> FALSE]

\* function createStream(config): tear the previous instance down, build a new one
createStream(config, L, stopThrows) ==
  LET cleaned ==
        [L EXCEPT !.listening = FALSE,
                  !.running = StopEffect(L.running, stopThrows),
                  !.calls = L.calls \o <<"createStream", "removeAllListeners", "stop">>]
  IN IF SpreadThrows(config)
       THEN [cleaned EXCEPT !.threw = TRUE]
       ELSE [cleaned EXCEPT !.stream = L.stream + 1,
                            !.running = FALSE,
                            !.listening = TRUE,
                            !.config = config,
                            !.calls = cleaned.calls \o <<"new">>]

\* startStreamIfNeeded with the test activeClients.size > 1
startStreamIfMoreThanOne(clients, L, startThrows) ==
  LET entered == [L EXCEPT !.calls = L.calls \o <<"startStreamIfNeeded">>]
  IN IF Size(clients) > 1
       THEN [entered EXCEPT !.running = IF startThrows THEN L.running ELSE TRUE,
                            !.calls = entered.calls \o <<"start">>]
       ELSE entered

\* function startStreamIfNeeded(): stream is never null after startup, so the
\* createStream() branch is not taken; a throwing start() is caught and logged
startStreamIfNeeded(clients, L, startThrows) ==
  LET entered == [L EXCEPT !.calls = L.calls \o <<"startStreamIfNeeded">>]
  IN IF Size(clients) > 0
       THEN [entered EXCEPT !.running = StartEffect(L.running, startThrows),
                            !.calls = entered.calls \o <<"start">>]
       ELSE entered

\* stopStreamIfNoClients without the test activeClients.size === 0
stopStreamAlways(clients, L, stopThrows) ==
  LET entered == [L EXCEPT !.calls = L.calls \o <<"stopStreamIfNoClients">>]
  IN [entered EXCEPT !.running = IF stopThrows THEN L.running ELSE FALSE,
                     !.calls = entered.calls \o <<"stop">>]

\* function stopStreamIfNoClients(): a throwing stop() is caught and logged
stopStreamIfNoClients(clients, L, stopThrows) ==
  LET entered == [L EXCEPT !.calls = L.calls \o <<"stopStreamIfNoClients">>]
  IN IF Size(clients) = 0
       THEN [entered EXCEPT !.running = StopEffect(L.running, stopThrows),
                            !.calls = entered.calls \o <<"stop">>]
       ELSE entered

\* updateStreamConfig that recreates the FrameSource only while it is running
updateStreamConfigIfRunning(merged, clients, L, stopThrows, startThrows) ==
  IF L.running
    THEN LET created == createStream(merged, L, stopThrows)
         IN IF created.threw THEN created
            ELSE startStreamIfNeeded(clients, created, startThrows)
    ELSE [L EXCEPT !.calls = <<"startStreamIfNeeded">>]

\* function updateStreamConfig(newConfig), given the merged configuration:
\* createStream may throw, and then startStreamIfNeeded is not reached
updateStreamConfig(merged, clients, L, stopThrows, startThrows) ==
  LET created == createStream(merged, L, stopThrows)
  IN IF created.threw THEN created
     ELSE startStreamIfNeeded(clients, created, startThrows)

\* ----------------------------------------------------------------- fan-out
RECURSIVE BuildBatchesNoReset(_, _, _)
\* BuildBatches without currentBatch.length = 0 after a full batch is pushed
BuildBatchesNoReset(rest, currentBatch, clientBatches) ==
  IF rest = <<>>
    THEN IF Len(currentBatch) > 0
           THEN Append(clientBatches, currentBatch)
           ELSE clientBatches
    ELSE LET pushed == Append(currentBatch, Head(rest))
         IN IF Len(pushed) >= MAX_CLIENTS_PER_FRAME
              THEN BuildBatchesNoReset(Tail(rest), pushed, Append(clientBatches, pushed))
              ELSE BuildBatchesNoReset(Tail(rest), pushed, clientBatches)

RECURSIVE BuildBatches(_, _, _)
\* the for-loop of handleNewFrame over activeClients, and the last partial batch
BuildBatches(rest, currentBatch, clientBatches) ==
  IF rest = <<>>
    THEN IF Len(currentBatch) > 0
           THEN Append(clientBatches, currentBatch)
           ELSE clientBatches
    ELSE LET pushed == Append(currentBatch, Head(rest))
         IN IF Len(pushed) >= MAX_CLIENTS_PER_FRAME
              THEN BuildBatches(Tail(rest), <<>>, Append(clientBatches, pushed))
              ELSE BuildBatches(Tail(rest), pushed, clientBatches)

ClientBatches(clients) == BuildBatches(clients, <<>>, <<>>)

\* queue.splice(0, queue.length - MAX_QUEUE_SIZE) when the queue is too large
TrimQueue(queue) ==
  IF Len(queue) > MAX_QUEUE_SIZE
    THEN SubSeq(queue, Len(queue) - MAX_QUEUE_SIZE + 1, Len(queue))
    ELSE queue

\* SendNewest reading the newest frame without pop() and without clearing
SendNewestKeep(queue) ==
  IF Len(queue) > 0
    THEN [queue |-> queue, out |-> <<queue[Len(queue)]>>]
    ELSE [queue |-> queue, out |-> <<>>]

\* frameToSend = queue.pop(); queue.length = 0: [queue, out] where out holds the
\* frame handed to socket.volatile.emit
SendNewest(queue) ==
  IF Len(queue) > 0
    THEN [queue |-> <<>>, out |-> <<queue[Len(queue)]>>]
    ELSE [queue |-> queue, out |-> <<>>]

\* queueFrameForClient without the check of socket.connected
queueFrameForClientAnySocket(clientId, frameData, F) ==
  LET queue == IF clientId \in DOMAIN F.frameQueues
                 THEN F.frameQueues[clientId] ELSE <<>>
      sent == SendNewest(TrimQueue(Append(queue, frameData)))
  IN [F EXCEPT
       !.frameQueues =
          [k \in DOMAIN F.frameQueues \cup {clientId} |->
             IF k = clientId THEN sent.queue ELSE F.frameQueues[k]],
       !.streamLog =
          [F.streamLog EXCEPT ![clientId] = @ \o sent.out]]

\* The fan-out part of the server state, as the record F:
\*   [frameQueues, streamLog, batchTimers]
\* function queueFrameForClient(clientId, frameData)
queueFrameForClient(clientId, frameData, F) ==
  IF clientId \notin sockets
    THEN F
    ELSE LET queue == IF clientId \in DOMAIN F.frameQueues
                        THEN F.frameQueues[clientId] ELSE <<>>
             sent == SendNewest(TrimQueue(Append(queue, frameData)))
         IN [F EXCEPT
              !.frameQueues =
                 [k \in DOMAIN F.frameQueues \cup {clientId} |->
                    IF k = clientId THEN sent.queue ELSE F.frameQueues[k]],
              !.streamLog =
                 [F.streamLog EXCEPT ![clientId] = @ \o sent.out]]

RECURSIVE QueueForBatch(_, _, _)
\* for (const clientId of batch) queueFrameForClient(clientId, frameData);
\* G is the state after the call for the first client of the batch
QueueForBatch(batch, frameData, F) ==
  IF batch = <<>> THEN F
  ELSE CHOOSE done \in
         { QueueForBatch(Tail(batch), frameData, G) :
             G \in {queueFrameForClient(Head(batch), frameData, F)} } : TRUE

\* processClientBatch that goes on to the next batch only while the producer runs
processClientBatchWhileRunning(batchIndex, clientBatches, frameData, F) ==
  IF batchIndex >= Len(clientBatches) THEN F
  ELSE LET done == QueueForBatch(clientBatches[batchIndex + 1], frameData, F)
       IN IF batchIndex + 1 < Len(clientBatches) /\ running
            THEN [done EXCEPT !.batchTimers =
                    Append(@, [batchIndex |-> batchIndex + 1,
                               clientBatches |-> clientBatches,
                               frameData |-> frameData])]
            ELSE done

\* function processClientBatch(batchIndex, clientBatches, frameData); batchIndex
\* counts from 0 as in the source
processClientBatch(batchIndex, clientBatches, frameData, F) ==
  IF batchIndex >= Len(clientBatches) THEN F
  ELSE LET done == QueueForBatch(clientBatches[batchIndex + 1], frameData, F)
       IN IF batchIndex + 1 < Len(clientBatches)
            THEN [done EXCEPT !.batchTimers =
                    Append(@, [batchIndex |-> batchIndex + 1,
                               clientBatches |-> clientBatches,
                               frameData |-> frameData])]
            ELSE done

FanState ==
  [frameQueues |-> frameQueues, streamLog |-> streamLog, batchTimers |-> batchTimers]

\* the patterns the 'error' handler looks for in err.message
ErrPatterns == {"Connection refused", "Invalid data", "timeout"}

\* an error text, as the set of patterns it includes
ErrTexts == SUBSET ErrPatterns

\* ErrorMessage without the test for 'timeout'
ErrorMessageNoTimeout(text) ==
  IF "Connection refused" \in text
    THEN "Failed to connect to RTSP stream: Connection refused"
  ELSE IF "Invalid data" \in text
    THEN "Invalid RTSP stream URL or stream not accessible"
  ELSE "Stream error occurred"

\* the text shown to clients for a producer error (first matching pattern wins)
ErrorMessage(text) ==
  IF "Connection refused" \in text
    THEN "Failed to connect to RTSP stream: Connection refused"
  ELSE IF "Invalid data" \in text
    THEN "Invalid RTSP stream URL or stream not accessible"
  ELSE IF "timeout" \in text
    THEN "Stream connection timed out"
  ELSE "Stream error occurred"

\* the delay with seconds taken for milliseconds
RestartTimerDelayWrongUnit == RESTART_DELAY \div 1000

\* delay argument of the restart timer set by the 'error' handler
RestartTimerDelay == RESTART_DELAY

\* RestartAfterError that gives up on a refused connection
RestartUnlessRefused(text, clients, timers) ==
  IF Size(clients) > 0 /\ "Connection refused" \notin text
    THEN Append(timers, [age |-> 0, delay |-> RestartTimerDelay, sawNoClients |-> FALSE])
    ELSE timers

\* the pending restart timers after the 'error' handler has run for an error
\* with this text: if (activeClients.size > 0) setTimeout(..., 5000)
RestartAfterError(text, clients, timers) ==
  IF Size(clients) > 0
    THEN Append(timers, [age |-> 0, delay |-> RestartTimerDelay, sawNoClients |-> FALSE])
    ELSE timers

Event(name, client) == [name |-> name, client |-> client]

\* the 'error' event of the producer, with the text of its argument
ErrorEvent(text) == [name |-> "error", client |-> 0, text |-> text]

\* CountFrame without frameCount++
CountFrameTotalOnly(counters) ==
  [counters EXCEPT !.totalFrames = @ + 1]

\* handleNewFrame: totalFrames++; frameCount++
CountFrame(counters) ==
  [counters EXCEPT !.totalFrames = @ + 1, !.frameCount = @ + 1]

\* the player's record of the callback that ran: the events it sent upstream
\* and whether it drew lastValidFrame again
PlayerEvent(name, frame, sent, redrew) ==
  [name |-> name, frame |-> frame, sent |-> sent, redrew |-> redrew]

\* an ImageBitmap: the frame it was decoded from, and whether close() detached it
Bitmap(frame) == [frame |-> frame, detached |-> FALSE]

\* this.lastValidFrame = null
NoBitmap == Bitmap(0)

\* the state after the constructor, which calls init() and connect()
PlayerInit ==
  /\ player = [frameCount |-> 0, connectionStatus |-> "connecting",
               lastValidFrame |-> NoBitmap, processingFrame |-> FALSE,
               frameTimeout |-> 0, skippedFrames |-> 0,
               statusEl |-> "Connecting to stream...", canvas |-> 0]
  /\ decodes = {}
  /\ timeouts = {}
  /\ streamCheckInterval = -1
  /\ sinceLastFrameTime = 0
  /\ sinceValid = -1
  /\ sinceProcessing = 0
  /\ stalled = FALSE
  /\ nextFrame = 1
  /\ playerEvent = PlayerEvent("init", 0, <<>>, FALSE)

\* ------------------------------------------------------------------- Init
\* module load: activeConfig = { ...defaultConfig }, stream = createStream()
Init ==
  /\ activeConfig = defaultConfig
  /\ stream = 1
  /\ running = FALSE
  /\ listening = TRUE
  /\ activeClients = <<>>
  /\ sockets = {}
  /\ nextId = 1
  /\ totalFrames = 0
  /\ frameQueues = <<>>
  /\ batchTimers = <<>>
  /\ restartTimers = <<>>
  /\ streamLog = <<>>
  /\ calls = <<>>
  /\ emits = <<>>
  /\ lastEvent = Event("init", 0)
  /\ nErrors = 0
  /\ nDisconnects = 0
  /\ streamConfig = defaultConfig
  /\ clientConfig = <<>>
  /\ readyTimers = 0
  /\ frameCount = 0
  /\ frameAge = LIVENESS_WINDOW
  /\ dataAge = LIVENESS_WINDOW
  /\ sinceReset = 0
  /\ PlayerInit

\* ---------------------------------------------------------------- actions
\* io.on('connection'): socket.io has registered the connected socket
Connection(limit, startThrows) ==
  /\ nextId <= limit
  /\ LET id == nextId
         clients == Append(activeClients, id)
         L == IF Size(clients) = 1
                THEN startStreamIfNeeded(clients, LifeState, startThrows)
                ELSE LifeState
     IN /\ activeClients' = clients
        /\ sockets' = sockets \cup {id}
        /\ nextId' = nextId + 1
        /\ streamLog' = [k \in DOMAIN streamLog \cup {id} |->
                           IF k = id THEN <<>> ELSE streamLog[k]]
        /\ emits' = <<[to |-> id, ev |-> "config", arg |-> activeConfig]>>
        /\ running' = L.running
        /\ calls' = L.calls
        /\ clientConfig' = [k \in DOMAIN clientConfig \cup {id} |->
                              IF k = id THEN activeConfig ELSE clientConfig[k]]
        /\ lastEvent' = Event("connection", id)
  /\ UNCHANGED <<activeConfig, stream, listening, totalFrames, frameQueues,
                 batchTimers, restartTimers, nErrors, nDisconnects, streamConfig,
                 readyTimers>>
  /\ UNCHANGED statsVars
  /\ UNCHANGED playerVars

\* socket.on('disconnect'): socket.io has removed the socket before the handler
\* runs.  sawNoClients is a history field of the pending restart timers: the
\* registry was empty at some moment since the timer was set.
Disconnect(id, limit, stopThrows) ==
  /\ id \in SeqToSet(activeClients)
  /\ nDisconnects < limit
  /\ LET clients == Without(activeClients, id)
         L == stopStreamIfNoClients(clients, LifeState, stopThrows)
     IN /\ activeClients' = clients
        /\ sockets' = sockets \ {id}
        /\ frameQueues' = [k \in DOMAIN frameQueues \ {id} |-> frameQueues[k]]
        /\ running' = L.running
        /\ calls' = L.calls
        /\ restartTimers' =
             [i \in 1..Len(restartTimers) |->
                [restartTimers[i] EXCEPT !.sawNoClients = @ \/ Size(clients) = 0]]
  /\ clientConfig' = [k \in DOMAIN clientConfig \ {id} |-> clientConfig[k]]
  /\ nDisconnects' = nDisconnects + 1
  /\ emits' = <<>>
  /\ lastEvent' = Event("disconnect", id)
  /\ UNCHANGED <<activeConfig, stream, listening, nextId, totalFrames,
                 batchTimers, streamLog, nErrors, streamConfig, readyTimers>>
  /\ UNCHANGED statsVars
  /\ UNCHANGED playerVars

\* stream.on('data', handleNewFrame): a frame is its production number and the
\* instance that produced it
HandleNewFrame ==
  /\ running /\ listening
  /\ totalFrames < MaxFrames
  /\ LET frameData == [seq |-> totalFrames + 1, src |-> stream]
         F == processClientBatch(0, ClientBatches(activeClients), frameData, FanState)
         counted == CountFrame([totalFrames |-> totalFrames,
                                frameCount |-> frameCount])
     IN /\ totalFrames' = counted.totalFrames
        /\ frameCount' = counted.frameCount
        /\ frameQueues' = F.frameQueues
        /\ streamLog' = F.streamLog
        /\ batchTimers' = F.batchTimers
  /\ frameAge' = 0
  /\ dataAge' = 0
  /\ calls' = <<>>
  /\ emits' = <<>>
  /\ lastEvent' = Event("data", 0)
  /\ UNCHANGED <<activeConfig, stream, running, listening, activeClients, sockets,
                 nextId, restartTimers, nErrors, nDisconnects, streamConfig,
                 clientConfig, readyTimers, sinceReset>>
  /\ UNCHANGED playerVars

\* the 5 ms continuation set by processClientBatch fires
BatchTimerFires ==
  /\ batchTimers # <<>>
  /\ LET t == Head(batchTimers)
         F == processClientBatch(t.batchIndex, t.clientBatches, t.frameData,
                                 [FanState EXCEPT !.batchTimers = Tail(batchTimers)])
     IN /\ frameQueues' = F.frameQueues
        /\ streamLog' = F.streamLog
        /\ batchTimers' = F.batchTimers
  /\ calls' = <<>>
  /\ emits' = <<>>
  /\ lastEvent' = Event("batch", 0)
  /\ UNCHANGED <<activeConfig, stream, running, listening, activeClients, sockets,
                 nextId, totalFrames, restartTimers, nErrors, nDisconnects,
                 streamConfig, clientConfig, readyTimers>>
  /\ UNCHANGED statsVars
  /\ UNCHANGED playerVars

\* stream.on('error'): the producer has failed (a terminal error: it no longer runs)
StreamError(text) ==
  /\ running /\ listening
  /\ nErrors < MaxErrors
  /\ running' = FALSE
  /\ emits' = <<[to |-> 0, ev |-> "stream-error", arg |-> ErrorMessage(text)]>>
  /\ restartTimers' = RestartAfterError(text, activeClients, restartTimers)
  /\ calls' = <<>>
  /\ nErrors' = nErrors + 1
  /\ lastEvent' = ErrorEvent(text)
  /\ UNCHANGED <<activeConfig, stream, listening, activeClients, sockets, nextId,
                 totalFrames, frameQueues, batchTimers, streamLog, nDisconnects,
                 streamConfig, clientConfig, readyTimers>>
  /\ UNCHANGED statsVars
  /\ UNCHANGED playerVars

\* the restart timer set by the 'error' handler fires
RestartTimerFires(startThrows) ==
  /\ restartTimers # <<>>
  /\ Head(restartTimers).age >= Head(restartTimers).delay
  /\ LET L == IF Size(activeClients) > 0
                THEN startStreamIfNeeded(activeClients, LifeState, startThrows)
                ELSE LifeState
     IN /\ running' = L.running
        /\ calls' = L.calls
        /\ emits' = IF L.threw
                      THEN <<[to |-> 0, ev |-> "stream-error",
                              arg |-> "Failed to restart stream"]>>
                      ELSE <<>>
  /\ restartTimers' = Tail(restartTimers)
  /\ lastEvent' = Event("restart", 0)
  /\ UNCHANGED <<activeConfig, stream, listening, activeClients, sockets, nextId,
                 totalFrames, frameQueues, batchTimers, streamLog, nErrors,
                 nDisconnects, streamConfig, clientConfig, readyTimers>>
  /\ UNCHANGED statsVars
  /\ UNCHANGED playerVars

\* one second passes on the pending restart timers
Tick ==
  /\ \E i \in 1..Len(restartTimers) : restartTimers[i].age < RESTART_DELAY
  /\ restartTimers' =
       [i \in 1..Len(restartTimers) |->
          [restartTimers[i] EXCEPT !.age = IF @ < RESTART_DELAY THEN @ + 1 ELSE @]]
  /\ calls' = <<>>
  /\ emits' = <<>>
  /\ lastEvent' = Event("tick", 0)
  /\ UNCHANGED <<activeConfig, stream, running, listening, activeClients, sockets,
                 nextId, totalFrames, frameQueues, batchTimers, streamLog, nErrors,
                 nDisconnects, streamConfig, clientConfig, readyTimers>>
  /\ UNCHANGED statsVars
  /\ UNCHANGED playerVars

\* the setInterval callback: every RESET_INTERVAL seconds
CounterReset ==
  /\ sinceReset >= RESET_INTERVAL
  /\ frameCount' = 0
  /\ sinceReset' = 0
  /\ calls' = <<>>
  /\ emits' = <<>>
  /\ lastEvent' = Event("counter-reset", 0)
  /\ UNCHANGED <<activeConfig, stream, running, listening, activeClients, sockets,
                 nextId, totalFrames, frameQueues, batchTimers, restartTimers,
                 streamLog, nErrors, nDisconnects, streamConfig, clientConfig,
                 readyTimers, frameAge, dataAge>>
  /\ UNCHANGED playerVars

\* one second passes on the clocks getStreamStats reads; the interval
\* callback runs before the clock passes its period
StatsTick ==
  /\ sinceReset < RESET_INTERVAL
  /\ sinceReset' = sinceReset + 1
  /\ frameAge' = IF frameAge < LIVENESS_WINDOW THEN frameAge + 1 ELSE frameAge
  /\ dataAge' = IF dataAge < LIVENESS_WINDOW THEN dataAge + 1 ELSE dataAge
  /\ calls' = <<>>
  /\ emits' = <<>>
  /\ lastEvent' = Event("stats-tick", 0)
  /\ UNCHANGED <<activeConfig, stream, running, listening, activeClients, sockets,
                 nextId, totalFrames, frameQueues, batchTimers, restartTimers,
                 streamLog, nErrors, nDisconnects, streamConfig, clientConfig,
                 readyTimers, frameCount>>
  /\ UNCHANGED playerVars

\* stream.on('start'): the running producer reports that it has started
StreamStarted ==
  /\ running /\ listening
  /\ frameAge' = 0
  /\ calls' = <<>>
  /\ emits' = <<[to |-> 0, ev |-> "stream-status", arg |-> "started"]>>
  /\ lastEvent' = Event("start", 0)
  /\ UNCHANGED <<activeConfig, stream, running, listening, activeClients, sockets,
                 nextId, totalFrames, frameQueues, batchTimers, restartTimers,
                 streamLog, nErrors, nDisconnects, streamConfig, clientConfig,
                 readyTimers, frameCount, dataAge, sinceReset>>
  /\ UNCHANGED playerVars

\* Math.round(n / d) for n >= 0, d > 0
MathRound(n, d) == (2 * n + d) \div (2 * d)

\* activeConfig.frameRate || 30
maxConfigFps(config) ==
  IF config.frameRate = 0 THEN FALLBACK_FPS ELSE config.frameRate

\* function getStreamStats(), read at the current instant
getStreamStats ==
  LET secondsElapsed == frameAge
      timeSinceReset == sinceReset
      measured == MathRound(frameCount,
                            IF timeSinceReset > 1 THEN timeSinceReset ELSE 1)
      cap == maxConfigFps(activeConfig)
      currentFps == IF frameCount > 0 /\ secondsElapsed < LIVENESS_WINDOW
                      THEN IF measured < cap THEN measured ELSE cap
                      ELSE 0
  IN [activeClients |-> Size(activeClients),
      frameCount |-> frameCount,
      totalFrames |-> totalFrames,
      currentFps |-> currentFps,
      isActive |-> /\ stream > 0
                   /\ Size(activeClients) > 0
                   /\ secondsElapsed < LIVENESS_WINDOW,
      config |-> activeConfig]

\* app.get('/api/stats')
GetStats ==
  /\ emits' = <<[to |-> -1, ev |-> "stats", arg |-> getStreamStats]>>
  /\ calls' = <<>>
  /\ lastEvent' = Event("stats", 0)
  /\ UNCHANGED <<activeConfig, stream, running, listening, activeClients, sockets,
                 nextId, totalFrames, frameQueues, batchTimers, restartTimers,
                 streamLog, nErrors, nDisconnects, streamConfig, clientConfig,
                 readyTimers>>
  /\ UNCHANGED statsVars
  /\ UNCHANGED playerVars

\* a connected socket sends 'stream-reconnect': the connection handler
\* registers listeners for 'update-config' and 'disconnect' only, so no
\* listener runs
StreamReconnect(id) ==
  /\ id \in sockets
  /\ calls' = <<>>
  /\ emits' = <<>>
  /\ lastEvent' = Event("stream-reconnect", id)
  /\ UNCHANGED <<activeConfig, stream, running, listening, activeClients, sockets,
                 nextId, totalFrames, frameQueues, batchTimers, restartTimers,
                 streamLog, nErrors, nDisconnects, streamConfig, clientConfig,
                 readyTimers>>
  /\ UNCHANGED statsVars
  /\ UNCHANGED playerVars

\* GET /health: no route of the application matches, the framework answers 404
GetHealth ==
  /\ calls' = <<>>
  /\ emits' = <<[to |-> -1, ev |-> "404", arg |-> "Cannot GET /health"]>>
  /\ lastEvent' = Event("get-health", 0)
  /\ UNCHANGED <<activeConfig, stream, running, listening, activeClients, sockets,
                 nextId, totalFrames, frameQueues, batchTimers, restartTimers,
                 streamLog, nErrors, nDisconnects, streamConfig, clientConfig,
                 readyTimers>>
  /\ UNCHANGED statsVars
  /\ UNCHANGED playerVars

\* the two POST routes: updateStreamConfig(body), then the response; limit
\* bounds the number of instances built
ConfigRoute(name, limit, newConfig, stopThrows, startThrows) ==
  /\ stream <= limit
  /\ LET merged == Merge(activeConfig, newConfig)
         L == updateStreamConfig(merged, activeClients, LifeState, stopThrows,
                                 startThrows)
     IN /\ activeConfig' = merged
        /\ stream' = L.stream
        /\ running' = L.running
        /\ listening' = L.listening
        /\ streamConfig' = L.config
        /\ calls' = L.calls
        /\ emits' = IF L.threw
                      THEN <<[to |-> -1, ev |-> "400", arg |-> "error"]>>
                      ELSE <<[to |-> -1, ev |-> "200", arg |-> merged]>>
  /\ lastEvent' = Event(name, 0)
  /\ UNCHANGED <<activeClients, sockets, nextId, totalFrames, frameQueues,
                 batchTimers, restartTimers, streamLog, nErrors, nDisconnects,
                 clientConfig, readyTimers>>
  /\ UNCHANGED statsVars
  /\ UNCHANGED playerVars

\* app.post('/api/config')
PostConfigUpTo(limit, newConfig, stopThrows, startThrows) ==
  ConfigRoute("post-config", limit, newConfig, stopThrows, startThrows)

PostConfig(newConfig, stopThrows, startThrows) ==
  PostConfigUpTo(MaxUpdates, newConfig, stopThrows, startThrows)

\* app.post('/api/config/reset'): updateStreamConfig(defaultConfig)
PostReset(limit, stopThrows, startThrows) ==
  ConfigRoute("post-reset", limit, defaultConfig, stopThrows, startThrows)

\* socket.on('update-config'): updateStreamConfig(newConfig), then the
\* broadcasts and the 1000 ms 'ready' timer; an exception is reported to the socket
SocketUpdateConfig(id, limit, newConfig, stopThrows, startThrows) ==
  /\ id \in sockets
  /\ stream <= limit
  /\ LET merged == Merge(activeConfig, newConfig)
         L == updateStreamConfig(merged, activeClients, LifeState, stopThrows,
                                 startThrows)
     IN /\ activeConfig' = merged
        /\ stream' = L.stream
        /\ running' = L.running
        /\ listening' = L.listening
        /\ streamConfig' = L.config
        /\ calls' = L.calls
        /\ emits' = IF L.threw
                      THEN <<[to |-> id, ev |-> "error",
                              arg |-> "Failed to update stream configuration"]>>
                      ELSE <<[to |-> 0, ev |-> "config", arg |-> merged],
                             [to |-> 0, ev |-> "stream-status", arg |-> "restarting"]>>
        /\ clientConfig' = IF L.threw THEN clientConfig
                           ELSE [k \in DOMAIN clientConfig |-> merged]
        /\ readyTimers' = IF L.threw THEN readyTimers ELSE readyTimers + 1
  /\ lastEvent' = Event("update-config", id)
  /\ UNCHANGED <<activeClients, sockets, nextId, totalFrames, frameQueues,
                 batchTimers, restartTimers, streamLog, nErrors, nDisconnects>>
  /\ UNCHANGED statsVars
  /\ UNCHANGED playerVars

\* the 'ready' timer set by the 'update-config' handler fires
ReadyTimerFires ==
  /\ readyTimers > 0
  /\ readyTimers' = readyTimers - 1
  /\ emits' = <<[to |-> 0, ev |-> "stream-status", arg |-> "ready"]>>
  /\ calls' = <<>>
  /\ lastEvent' = Event("ready", 0)
  /\ UNCHANGED <<activeConfig, stream, running, listening, activeClients, sockets,
                 nextId, totalFrames, frameQueues, batchTimers, restartTimers,
                 streamLog, nErrors, nDisconnects, streamConfig, clientConfig>>
  /\ UNCHANGED statsVars
  /\ UNCHANGED playerVars

\* ------------------------------------------------------------- the player
\* The RTSPPlayer object of one browser (the client library the server sends
\* for GET /rtsp-player.js). Times are in ms and advance in steps of
\* FRAME_TIMEOUT; a timer that is due runs before time goes on.

\* imageBitmap.close()
CloseBitmap(bitmap) == [bitmap EXCEPT !.detached = TRUE]

\* the sizes of the units the player is sent
FrameSizes == {MIN_FRAME_SIZE - 1, MIN_FRAME_SIZE}

\* a clock that counts up to limit, step ms later
AgeAfter(age, step, limit) == IF age + step > limit THEN limit ELSE age + step

\* showStatus(message, isError)
showStatus(p, message) == [p EXCEPT !.statusEl = message]

\* hideStatus()
hideStatus(p) == [p EXCEPT !.statusEl = ""]

\* updateConnectionStatus(status, message)
updateConnectionStatus(p, status) == [p EXCEPT !.connectionStatus = status]

\* handleSuccessfulConnection()
handleSuccessfulConnection(p) == updateConnectionStatus(hideStatus(p), "connected")

\* The part of the player a decoded frame changes, as the record S:
\*   [player, streamCheckInterval, sinceLastFrameTime]
PlayerState ==
  [player |-> player, streamCheckInterval |-> streamCheckInterval,
   sinceLastFrameTime |-> sinceLastFrameTime]

\* the success path that does not set lastFrameTime
DrawFrameKeepTime(frame, S) ==
  LET drawn == [S.player EXCEPT !.canvas = frame,
                                !.lastValidFrame = CloseBitmap(Bitmap(frame)),
                                !.frameCount = @ + 1]
  IN [player |-> handleSuccessfulConnection(hideStatus(drawn)),
      streamCheckInterval |->
        IF S.streamCheckInterval # -1 /\ drawn.frameCount > 1
          THEN -1 ELSE S.streamCheckInterval,
      sinceLastFrameTime |-> S.sinceLastFrameTime]

\* the success path that does not count the frame
DrawFrameUncounted(frame, S) ==
  LET drawn == [S.player EXCEPT !.canvas = frame,
                                !.lastValidFrame = CloseBitmap(Bitmap(frame))]
  IN [player |-> handleSuccessfulConnection(hideStatus(drawn)),
      streamCheckInterval |->
        IF S.streamCheckInterval # -1 /\ drawn.frameCount > 1
          THEN -1 ELSE S.streamCheckInterval,
      sinceLastFrameTime |-> 0]

\* the 'stream' handler after createImageBitmap resolved: the frame is drawn,
\* kept as lastValidFrame and closed, counted and timed; the stall check is
\* cleared from the second frame on
DrawFrame(frame, S) ==
  LET drawn == [S.player EXCEPT !.canvas = frame,
                                !.lastValidFrame = CloseBitmap(Bitmap(frame)),
                                !.frameCount = @ + 1]
  IN [player |-> handleSuccessfulConnection(hideStatus(drawn)),
      streamCheckInterval |->
        IF S.streamCheckInterval # -1 /\ drawn.frameCount > 1
          THEN -1 ELSE S.streamCheckInterval,
      sinceLastFrameTime |-> 0]

\* the catch block of the 'stream' handler: [player, redrew]. closedProperty is
\* what reading lastValidFrame.closed gives; drawImage throws for a detached
\* ImageBitmap
RedrawLastValid(p, closedProperty) ==
  IF p.lastValidFrame # NoBitmap /\ ~closedProperty
    THEN IF p.lastValidFrame.detached
           THEN [player |-> [p EXCEPT !.lastValidFrame = NoBitmap], redrew |-> FALSE]
           ELSE [player |-> [p EXCEPT !.canvas = p.lastValidFrame.frame],
                 redrew |-> TRUE]
    ELSE [player |-> p, redrew |-> FALSE]

\* the callback of the frame timeout that leaves the flag as it is
frameTimeoutCallbackIdle(p) == p

\* setTimeout(() => { this.processingFrame = false; ... }, 500)
frameTimeoutCallback(p) == [p EXCEPT !.processingFrame = FALSE]

\* the finally block of the 'stream' handler: [player, timeouts]
ReleaseFrame(p, T) ==
  [player |-> [p EXCEPT !.frameTimeout = 0, !.processingFrame = FALSE],
   timeouts |-> {t \in T : t.id # p.frameTimeout}]

\* socket.on('connect')
PlayerConnect ==
  /\ player' = showStatus(player, "Establishing stream connection...")
  /\ playerEvent' = PlayerEvent("connect", 0, <<>>, FALSE)
  /\ UNCHANGED <<decodes, timeouts, streamCheckInterval, sinceLastFrameTime,
                 sinceValid, sinceProcessing, stalled, nextFrame>>
  /\ UNCHANGED serverVars

\* socket.on('stream-error'): startStreamCheck() sets the interval anew
PlayerStreamError ==
  /\ player' = showStatus(player, "error")
  /\ streamCheckInterval' = 0
  /\ playerEvent' = PlayerEvent("stream-error", 0, <<>>, FALSE)
  /\ UNCHANGED <<decodes, timeouts, sinceLastFrameTime, sinceValid,
                 sinceProcessing, stalled, nextFrame>>
  /\ UNCHANGED serverVars

\* socket.on('stream-status')
PlayerStreamStatus(status) ==
  /\ player' = IF status = "stopped"
                 THEN showStatus(player, "Stream stopped. Attempting to reconnect...")
                 ELSE IF status = "started"
                   THEN showStatus(player, "Stream connected, waiting for video...")
                   ELSE player
  /\ streamCheckInterval' = IF status = "stopped" THEN 0 ELSE streamCheckInterval
  /\ playerEvent' = PlayerEvent("stream-status", 0, <<>>, FALSE)
  /\ UNCHANGED <<decodes, timeouts, sinceLastFrameTime, sinceValid,
                 sinceProcessing, stalled, nextFrame>>
  /\ UNCHANGED serverVars

\* the callback of the interval set by startStreamCheck
StreamCheckFires ==
  /\ streamCheckInterval >= STREAM_CHECK_INTERVAL
  /\ LET late == player.frameCount = 0 \/ sinceLastFrameTime > STALL_WINDOW
     IN /\ player' = IF late
                       THEN showStatus(player,
                              "Stream not responding. Attempting to reconnect...")
                       ELSE player
        /\ stalled' = (stalled \/ late)
        /\ playerEvent' = PlayerEvent("check", 0,
                            IF late THEN <<"stream-reconnect">> ELSE <<>>, FALSE)
  /\ streamCheckInterval' = 0
  /\ UNCHANGED <<decodes, timeouts, sinceLastFrameTime, sinceValid,
                 sinceProcessing, nextFrame>>
  /\ UNCHANGED serverVars

\* socket.on('stream') up to its first await: the unit is skipped while
\* processingFrame is set; otherwise the flag and the timeout are set and the
\* unit is either thrown out as too small (catch and finally run at once) or
\* handed to createImageBitmap
PlayerStream(size, closedProperty) ==
  /\ nextFrame <= MaxPlayerFrames
  /\ nextFrame' = nextFrame + 1
  /\ IF player.processingFrame
       THEN /\ player' = [player EXCEPT !.skippedFrames = @ + 1]
            /\ playerEvent' = PlayerEvent("skipped", nextFrame, <<>>, FALSE)
            /\ UNCHANGED <<decodes, timeouts, sinceProcessing>>
       ELSE LET started == [player EXCEPT !.processingFrame = TRUE,
                                          !.frameTimeout = nextFrame]
                set == timeouts \cup {[id |-> nextFrame, age |-> 0]}
            IN IF size < MIN_FRAME_SIZE
                 THEN LET caught == RedrawLastValid(started, closedProperty)
                          done == ReleaseFrame(caught.player, set)
                      IN /\ player' = done.player
                         /\ timeouts' = done.timeouts
                         /\ playerEvent' = PlayerEvent("too-small", nextFrame, <<>>,
                                                       caught.redrew)
                         /\ sinceProcessing' = 0
                         /\ UNCHANGED decodes
                 ELSE /\ player' = started
                      /\ timeouts' = set
                      /\ decodes' = decodes \cup {nextFrame}
                      /\ playerEvent' = PlayerEvent("decoding", nextFrame, <<>>, FALSE)
                      /\ sinceProcessing' = 0
  /\ UNCHANGED <<streamCheckInterval, sinceLastFrameTime, sinceValid, stalled>>
  /\ UNCHANGED serverVars

\* socket.on('stream') after its await: createImageBitmap resolved (ok) or
\* rejected, then the finally block
DecodeSettles(frame, ok, closedProperty) ==
  /\ frame \in decodes
  /\ decodes' = decodes \ {frame}
  /\ IF ok
       THEN LET S == DrawFrame(frame, PlayerState)
                done == ReleaseFrame(S.player, timeouts)
            IN /\ player' = done.player
               /\ timeouts' = done.timeouts
               /\ streamCheckInterval' = S.streamCheckInterval
               /\ sinceLastFrameTime' = S.sinceLastFrameTime
               /\ sinceValid' = 0
               /\ stalled' = FALSE
               /\ playerEvent' = PlayerEvent("decoded", frame, <<>>, FALSE)
       ELSE LET caught == RedrawLastValid(player, closedProperty)
                done == ReleaseFrame(caught.player, timeouts)
            IN /\ player' = done.player
               /\ timeouts' = done.timeouts
               /\ playerEvent' = PlayerEvent("decode-failed", frame, <<>>,
                                             caught.redrew)
               /\ UNCHANGED <<streamCheckInterval, sinceLastFrameTime, sinceValid,
                              stalled>>
  /\ sinceProcessing' = IF player.processingFrame THEN 0 ELSE sinceProcessing
  /\ UNCHANGED nextFrame
  /\ UNCHANGED serverVars

\* the 500 ms timeout of a frame runs
FrameTimeoutFires(id) ==
  /\ \E t \in timeouts : t.id = id /\ t.age >= FRAME_TIMEOUT
  /\ timeouts' = {t \in timeouts : t.id # id}
  /\ player' = frameTimeoutCallback(player)
  /\ sinceProcessing' = IF player.processingFrame # player'.processingFrame
                          THEN 0 ELSE sinceProcessing
  /\ playerEvent' = PlayerEvent("timeout", id, <<>>, FALSE)
  /\ UNCHANGED <<decodes, streamCheckInterval, sinceLastFrameTime, sinceValid,
                 stalled, nextFrame>>
  /\ UNCHANGED serverVars

\* socket.on('config'): updateConfigForm calls updateCanvasSize when the
\* resolution parses, which clears the canvas and drops lastValidFrame
PlayerConfig(resolutionOk, closedProperty) ==
  /\ player' = IF resolutionOk
                 THEN [player EXCEPT
                         !.canvas = 0,
                         !.lastValidFrame =
                            IF @ # NoBitmap /\ ~closedProperty THEN NoBitmap ELSE @]
                 ELSE player
  /\ playerEvent' = PlayerEvent("config", 0, <<>>, FALSE)
  /\ UNCHANGED <<decodes, timeouts, streamCheckInterval, sinceLastFrameTime,
                 sinceValid, sinceProcessing, stalled, nextFrame>>
  /\ UNCHANGED serverVars

\* step ms pass in the browser, during which no timer comes due; the clocks
\* count up to limit
PlayerTick(step, limit) ==
  /\ \A t \in timeouts : t.age + step <= FRAME_TIMEOUT
  /\ streamCheckInterval = -1 \/ streamCheckInterval + step <= STREAM_CHECK_INTERVAL
  /\ timeouts' = {[t EXCEPT !.age = @ + step] : t \in timeouts}
  /\ streamCheckInterval' = IF streamCheckInterval = -1 THEN -1
                            ELSE streamCheckInterval + step
  /\ sinceLastFrameTime' = AgeAfter(sinceLastFrameTime, step, limit)
  /\ sinceValid' = IF sinceValid = -1 THEN -1 ELSE AgeAfter(sinceValid, step, limit)
  /\ sinceProcessing' = AgeAfter(sinceProcessing, step, 2 * FRAME_TIMEOUT)
  /\ playerEvent' = PlayerEvent("tick", 0, <<>>, FALSE)
  /\ UNCHANGED <<player, decodes, stalled, nextFrame>>
  /\ UNCHANGED serverVars

\* ---------------------------------------------------------- specifications
\* the lifecycle of the server with a few clients: start and stop, recovery
\* and configuration (no handler of frames reads or writes the lifecycle state)
Next ==
  \/ \E t \in BOOLEAN : Connection(MaxConns, t)
  \/ \E id \in 1..MaxConns, t \in BOOLEAN : Disconnect(id, MaxConns, t)
  \/ \E text \in ErrTexts : StreamError(text)
  \/ \E t \in BOOLEAN : RestartTimerFires(t)
  \/ Tick
  \/ \E c \in ConfigInputs, t1 \in BOOLEAN, t2 \in BOOLEAN : PostConfig(c, t1, t2)

Spec == Init /\ [][Next]_vars

\* the player and its stall check, with the events and frames a server may
\* send it; every decode settles before its timeout, and time is counted in
\* halves of the check interval
WatchdogNext ==
  \/ PlayerConnect
  \/ PlayerStreamError
  \/ \E status \in {"stopped", "started", "restarting"} : PlayerStreamStatus(status)
  \/ StreamCheckFires
  \/ \E size \in FrameSizes, c \in BOOLEAN : PlayerStream(size, c)
  \/ \E frame \in 1..MaxPlayerFrames, ok \in BOOLEAN, c \in BOOLEAN :
       DecodeSettles(frame, ok, c)
  \/ \E r \in BOOLEAN, c \in BOOLEAN : PlayerConfig(r, c)
  \/ PlayerTick(STREAM_CHECK_INTERVAL \div 2, MaxPlayerAge)

WatchdogSpec == Init /\ [][WatchdogNext]_vars

\* the player and the frames it is sent, whose decodes settle at any time or
\* never; no event starts the stall check, and time is counted in frame timeouts
PlayerNext ==
  \/ PlayerConnect
  \/ \E size \in FrameSizes, c \in BOOLEAN : PlayerStream(size, c)
  \/ \E frame \in 1..MaxPlayerFrames, ok \in BOOLEAN, c \in BOOLEAN :
       DecodeSettles(frame, ok, c)
  \/ \E id \in 1..MaxPlayerFrames : FrameTimeoutFires(id)
  \/ \E r \in BOOLEAN, c \in BOOLEAN : PlayerConfig(r, c)
  \/ PlayerTick(FRAME_TIMEOUT, 2 * FRAME_TIMEOUT)

PlayerSpec == Init /\ [][PlayerNext]_vars

\* the server with more clients than one batch holds, and a producer that
\* starts and stops without failing
FanoutNext ==
  \/ Connection(MaxFanClients, FALSE)
  \/ \E id \in 1..MaxFanClients : Disconnect(id, MaxFanDisconnects, FALSE)
  \/ HandleNewFrame
  \/ BatchTimerFires

FanoutSpec == Init /\ [][FanoutNext]_vars

\* the server with enough clients for three batches, none of which leaves
BatchNext ==
  \/ Connection(MaxBatchClients, FALSE)
  \/ HandleNewFrame
  \/ BatchTimerFires

BatchSpec == Init /\ [][BatchNext]_vars

\* the server with a few clients, frames and every way to change the
\* configuration, and a producer that starts and stops without failing
ConfigNext ==
  \/ Connection(MaxConns, FALSE)
  \/ \E id \in 1..MaxConns : Disconnect(id, MaxConns, FALSE)
  \/ HandleNewFrame
  \/ \E id \in 1..MaxConns, c \in ConfigSpecInputs :
       SocketUpdateConfig(id, MaxConfigUpdates, c, FALSE, FALSE)
  \/ \E c \in ConfigSpecInputs : PostConfigUpTo(MaxConfigUpdates, c, FALSE, FALSE)
  \/ PostReset(MaxConfigUpdates, FALSE, FALSE)
  \/ ReadyTimerFires

ConfigSpec == Init /\ [][ConfigNext]_vars

\* viewers that stay connected, frames, the clocks read by the stats and
\* frame-rate updates
StatsNext ==
  \/ Connection(MaxStatsConns, FALSE)
  \/ HandleNewFrame
  \/ StreamStarted
  \/ CounterReset
  \/ StatsTick
  \/ GetStats
  \/ \E c \in RateInputs : PostConfigUpTo(MaxUpdates, c, FALSE, FALSE)

StatsSpec == Init /\ [][StatsNext]_vars

\* the lifecycle with the requests a client makes about the server's health
RequestNext ==
  \/ \E t \in BOOLEAN : Connection(MaxConns, t)
  \/ \E id \in 1..MaxConns, t \in BOOLEAN : Disconnect(id, MaxConns, t)
  \/ \E text \in ErrTexts : StreamError(text)
  \/ \E t \in BOOLEAN : RestartTimerFires(t)
  \/ Tick
  \/ \E id \in 1..MaxConns : StreamReconnect(id)
  \/ GetHealth

RequestSpec == Init /\ [][RequestNext]_vars

\* FanoutSpec with configuration updates
ConfigFanoutNext ==
  \/ FanoutNext
  \/ PostConfigUpTo(MaxUpdates, [resolution |-> "1280x720"], FALSE, FALSE)

ConfigFanoutSpec == Init /\ [][ConfigFanoutNext]_vars

\* ======================================================= claims: fan-out
\* the production numbers of the frames emitted to client c, in emission order
SeqsSent(c) == [i \in 1..Len(streamLog[c]) |-> streamLog[c][i].seq]

CeilDiv(n, b) == (n + b - 1) \div b

\* C1: for every client the frames emitted to it are in non-decreasing
\* production order.
C1_FramesInOrder ==
  \A c \in DOMAIN streamLog :
    \A i, j \in 1..Len(streamLog[c]) :
      i < j => SeqsSent(c)[i] <= SeqsSent(c)[j]

\* C2: once frames F1 and a later F2 have both been produced and neither has
\* been emitted to a connected client, F1 is not emitted to that client.
C2_OnlyNewestDelivered ==
  [][\A c \in sockets : \A f1, f2 \in 1..totalFrames :
       ( /\ f1 < f2
         /\ f1 \notin SeqToSet(SeqsSent(c))
         /\ f2 \notin SeqToSet(SeqsSent(c))
         /\ c \in DOMAIN streamLog' )
       => f1 \notin {streamLog'[c][i].seq : i \in 1..Len(streamLog'[c])}]_vars

\* C3: every client's queue in frameQueues holds at most one frame whenever a
\* handler has returned.
C3_QueueAtMostOne ==
  \A c \in DOMAIN frameQueues : Len(frameQueues[c]) <= 1

\* a client has had two frames queued for it, and its queue exists
C3_Witness ==
  \E c \in DOMAIN frameQueues : Len(streamLog[c]) >= 2

\* C10: a frame produced while N clients are registered is fanned out in
\* ceil(N/10) batches that hold every registered client exactly once (one batch
\* is processed in the handler; more batches leave one continuation that holds
\* them all), and no client is ever sent the same frame twice.
C10_BatchesFormed ==
  totalFrames' = totalFrames + 1 =>
    LET N == Len(activeClients)
        frame == [seq |-> totalFrames', src |-> stream]
    IN IF CeilDiv(N, 10) <= 1
         THEN /\ batchTimers' = batchTimers
              /\ \A c \in SeqToSet(activeClients) :
                   streamLog'[c] = Append(streamLog[c], frame)
         ELSE /\ Len(batchTimers') = Len(batchTimers) + 1
              /\ LET t == batchTimers'[Len(batchTimers')]
                     cb == t.clientBatches
                 IN /\ t.batchIndex = 1
                    /\ t.frameData = frame
                    /\ Len(cb) = CeilDiv(N, 10)
                    /\ \A c \in SeqToSet(activeClients) :
                         Cardinality({<<i, j>> \in (1..Len(cb)) \X (1..10) :
                                        j <= Len(cb[i]) /\ cb[i][j] = c}) = 1
                    /\ \A i \in 1..Len(cb) :
                         SeqToSet(cb[i]) \subseteq SeqToSet(activeClients)

C10_AtMostOncePerFrame ==
  \A c \in DOMAIN streamLog : \A f \in 1..totalFrames :
    CountOf(SeqsSent(c), f) <= 1

C10_BatchCompleteness ==
  [][C10_BatchesFormed]_vars /\ []C10_AtMostOncePerFrame

\* the third batch of a frame has been processed and has reached its client
C10_Witness ==
  /\ lastEvent.name = "batch"
  /\ \E c \in sockets : c > 20 /\ streamLog[c] # <<>>

\* ===================================================== claims: lifecycle
\* C4: the connection handler calls start exactly once when the new client is
\* the only registered one, and not at all when others are registered.
C4_FirstClientStarts ==
  lastEvent.name = "connection" =>
    CountOf(calls, "start") = IF Size(activeClients) = 1 THEN 1 ELSE 0

\* the first client has registered and the producer was started for it
C4_Witness ==
  /\ lastEvent.name = "connection"
  /\ Size(activeClients) = 1
  /\ calls = <<"startStreamIfNeeded", "start">>
  /\ running

\* C5: the disconnect handler calls stop exactly once when it leaves the
\* registry empty, and not at all when other clients remain.
C5_LastClientStops ==
  lastEvent.name = "disconnect" =>
    CountOf(calls, "stop") = IF Size(activeClients) = 0 THEN 1 ELSE 0

\* the last client has left and the producer was stopped
C5_Witness ==
  /\ lastEvent.name = "disconnect"
  /\ Size(activeClients) = 0
  /\ CountOf(calls, "stop") = 1
  /\ ~running

\* C6: unless a restart timer is pending, the FrameSource is running if and
\* only if a client is registered (a FrameSource always exists).
C6_RunningIffClients ==
  restartTimers = <<>> => (running <=> Size(activeClients) > 0)

\* C7: a producer error with a client registered sets exactly one restart
\* timer; a timer fires once, no earlier than 5 seconds after it was set, and
\* then calls startStreamIfNeeded exactly once if a client is registered; no
\* other handler sets or clears a restart timer.
C7_Step ==
  /\ (lastEvent'.name = "error" /\ Size(activeClients) > 0)
       => Len(restartTimers') = Len(restartTimers) + 1
  /\ lastEvent'.name = "restart"
       => /\ restartTimers # <<>>
          /\ Head(restartTimers).age >= 5
          /\ Len(restartTimers') = Len(restartTimers) - 1
          /\ CountOf(calls', "startStreamIfNeeded")
               = IF Size(activeClients) > 0 THEN 1 ELSE 0
  /\ lastEvent'.name \notin {"error", "restart"}
       => Len(restartTimers') = Len(restartTimers)

\* ... and every restart timer that is set fires: k pending timers become fewer.
C7_OneDelayedRestart ==
  /\ [][C7_Step]_vars
  /\ \A k \in 1..MaxErrors :
       (Len(restartTimers) = k) ~> (Len(restartTimers) < k)

\* a restart timer has fired with a client registered
C7_Witness ==
  /\ lastEvent.name = "restart"
  /\ calls = <<"startStreamIfNeeded", "start">>

\* C8: a restart timer that has seen the registry empty makes no restart
\* attempt when it fires.
C8_NoRestartAfterEmpty ==
  [][(lastEvent'.name = "restart" /\ restartTimers # <<>>
        /\ Head(restartTimers).sawNoClients)
       => CountOf(calls', "startStreamIfNeeded") = 0]_vars

\* C9: after a restart attempt, if clients are registered and the producer is
\* not running, another restart is pending.
C9_FailedRestartRescheduled ==
  (lastEvent.name = "restart" /\ Size(activeClients) > 0 /\ ~running)
    => restartTimers # <<>>

\* the server with time passing and every due timer firing
FairSpec ==
  /\ Spec
  /\ WF_vars(Tick)
  /\ WF_vars(\E t \in BOOLEAN : RestartTimerFires(t))

\* C11: once a client has been sent a frame produced by a newer FrameSource
\* instance, it is not afterwards sent a frame produced by an older instance.
C11_NoOldAfterNew ==
  \A c \in DOMAIN streamLog :
    \A i, j \in 1..Len(streamLog[c]) :
      i < j => streamLog[c][i].src <= streamLog[c][j].src

\* the handler that just ran reported a failure to its requester
ReportsFailure(es) == \E i \in 1..Len(es) : es[i].ev \in {"400", "error"}

\* the handler that just ran broadcast a 'config' event carrying config
BroadcastsConfig(es, config) ==
  \E i \in 1..Len(es) : /\ es[i].ev = "config"
                         /\ es[i].to = 0
                         /\ es[i].arg = config

ConfigChangeEvents == {"update-config", "post-config", "post-reset"}

\* C12: every handler that changes the active configuration without failing,
\* while clients are connected, broadcasts a 'config' event carrying the
\* resulting configuration.
C12_ConfigSentAfterChange ==
  [][( /\ lastEvent'.name \in ConfigChangeEvents
       /\ ~ReportsFailure(emits')
       /\ sockets # {} )
     => BroadcastsConfig(emits', activeConfig')]_vars

\* C13: a connected client that has been sent a frame produced by the current
\* FrameSource instance has been sent the configuration that instance was
\* built from.
C13_ConfigBeforeNewFrames ==
  \A c \in sockets :
    (\E i \in 1..Len(streamLog[c]) : streamLog[c][i].src = stream)
      => clientConfig[c] = streamConfig

\* C14: a configuration update that reports a failure to its requester leaves
\* the active configuration and the FrameSource (instance, listeners, running
\* state) as they were before the request.
C14_FailedUpdateChangesNothing ==
  [][( /\ lastEvent'.name \in ConfigChangeEvents
       /\ ReportsFailure(emits') )
     => /\ activeConfig' = activeConfig
        /\ stream' = stream
        /\ listening' = listening
        /\ running' = running]_vars

\* C15: a configuration update that returns normally has removed the previous
\* instance's listeners and called stop on it, has built a new instance from
\* the merged configuration, and has called start on it if and only if at
\* least one client is registered.
C15_UpdateRecreates ==
  [][( /\ lastEvent'.name \in ConfigChangeEvents
       /\ ~ReportsFailure(emits') )
     => /\ Len(calls') >= 4
        /\ SubSeq(calls', 1, 4) = <<"createStream", "removeAllListeners", "stop", "new">>
        /\ stream' = stream + 1
        /\ listening'
        /\ streamConfig' = activeConfig'
        /\ ("start" \in SeqToSet(calls')) <=> (activeClients # <<>>)]_vars

\* an update has just recreated the FrameSource and started it for a client
C15_Witness ==
  /\ lastEvent.name \in ConfigChangeEvents
  /\ ~ReportsFailure(emits)
  /\ stream > 1
  /\ activeClients # <<>>
  /\ "start" \in SeqToSet(calls)

\* C16: after a reset-to-default request that returns normally the active
\* configuration equals defaultConfig: same fields, same values.
C16_ResetGivesDefault ==
  [][( /\ lastEvent'.name = "post-reset"
       /\ ~ReportsFailure(emits') )
     => activeConfig' = defaultConfig]_vars

\* C17: totalFrames never decreases and grows by exactly one per frame;
\* frameCount becomes 0 at each periodic reset and otherwise grows by exactly
\* one per frame and is left alone by everything else.
C17_Counters ==
  [][ /\ totalFrames' >= totalFrames
      /\ IF lastEvent'.name = "data"
           THEN /\ totalFrames' = totalFrames + 1
                /\ frameCount' = frameCount + 1
           ELSE /\ totalFrames' = totalFrames
                /\ IF lastEvent'.name = "counter-reset"
                     THEN frameCount' = 0
                     ELSE frameCount' = frameCount ]_vars

\* a periodic reset has just cleared frameCount after frames were counted
C17_Witness ==
  /\ lastEvent.name = "counter-reset"
  /\ frameCount = 0
  /\ totalFrames = MaxFrames

\* C18: at every instant the isActive that a stats query would return is true
\* if and only if a FrameSource exists, at least one client is registered and
\* the most recent frame arrived less than LIVENESS_WINDOW seconds ago.
C18_IsActiveIffRecentFrame ==
  getStreamStats.isActive <=> ( /\ stream > 0
                                /\ Size(activeClients) > 0
                                /\ dataAge < LIVENESS_WINDOW )

\* C19: at every instant the currentFps that a stats query would return is
\* at most the frame rate of the active configuration.
C19_FpsAtMostTarget ==
  getStreamStats.currentFps <= activeConfig.frameRate

\* the message each class of error is reported with
MessageFor(pattern) ==
  CASE pattern = "Connection refused" ->
         "Failed to connect to RTSP stream: Connection refused"
    [] pattern = "Invalid data" ->
         "Invalid RTSP stream URL or stream not accessible"
    [] pattern = "timeout" -> "Stream connection timed out"

\* C20: the 'error' handler broadcasts exactly one stream-error event, in the
\* same step, whose message is the one of a class the error text belongs to
\* (the generic one when it belongs to none), and it leaves the sockets, the
\* registered clients and the listeners in place.
C20_ErrorReported ==
  [][lastEvent'.name = "error"
     => /\ Len(emits') = 1
        /\ emits'[1].ev = "stream-error"
        /\ emits'[1].to = 0
        /\ IF lastEvent'.text = {}
             THEN emits'[1].arg = "Stream error occurred"
             ELSE \E p \in lastEvent'.text : emits'[1].arg = MessageFor(p)
        /\ sockets' = sockets
        /\ activeClients' = activeClients
        /\ listening' = listening]_vars

\* a timeout error has just been reported while a client is connected
C20_Witness ==
  /\ lastEvent.name = "error"
  /\ lastEvent.text = {"timeout"}
  /\ sockets # {}
  /\ emits = <<[to |-> 0, ev |-> "stream-error", arg |-> "Stream connection timed out"]>>

\* C21: the step taken for a producer error leaves the server, apart from the
\* message it emits, in the state that the same error with any other text
\* would have left it in: the producer is not running, the restart timers are
\* those scheduled for any other text, and nothing else has changed.
C21_TextOnlyInMessage ==
  [][lastEvent'.name = "error"
     => /\ \A other \in ErrTexts :
             restartTimers' = RestartAfterError(other, activeClients, restartTimers)
        /\ ~running'
        /\ calls' = <<>>
        /\ UNCHANGED <<activeConfig, stream, listening, activeClients, sockets,
                       nextId, totalFrames, frameQueues, batchTimers, streamLog,
                       streamConfig, clientConfig, readyTimers, statsVars>>]_vars

\* a refused connection has just been reported and its restart is scheduled
C21_Witness ==
  /\ lastEvent.name = "error"
  /\ lastEvent.text = {"Connection refused"}
  /\ restartTimers # <<>>
  /\ restartTimers[Len(restartTimers)].age = 0

\* C22: a stream-reconnect sent by a connected client while the producer is
\* not running makes the server call start on the producer.
C22_ReconnectRestarts ==
  [][( /\ lastEvent'.name = "stream-reconnect"
       /\ ~running )
     => "start" \in SeqToSet(calls')]_vars

\* C23: a request to the health endpoint is answered with a success response.
C23_HealthAnswered ==
  [][lastEvent'.name = "get-health"
     => \E i \in 1..Len(emits') : emits'[i].to = -1 /\ emits'[i].ev = "200"]_vars

\* the fan-out with three batches: frames arrive once the clients have
\* connected, the clients that leave are the first client of the second batch
\* and the last client, the producer may fail, and the 5 ms continuations
\* fire when they are due
ChainNext ==
  \/ Connection(MaxBatchClients, FALSE)
  \/ \E id \in {MAX_CLIENTS_PER_FRAME + 1, MaxBatchClients} :
       Disconnect(id, MaxFanDisconnects, FALSE)
  \/ (nextId > MaxBatchClients /\ HandleNewFrame)
  \/ BatchTimerFires
  \/ StreamError({})

ChainSpec == Init /\ [][ChainNext]_vars /\ WF_vars(BatchTimerFires)

\* the step that processes batch k of a frame sends the frame to the clients
\* of that batch that are still connected and to nobody else, and leaves a
\* continuation for batch k+1 exactly when there is one
C24_Step ==
  /\ lastEvent'.name = "batch" =>
       LET t == Head(batchTimers)
           batch == t.clientBatches[t.batchIndex + 1]
       IN /\ \A c \in DOMAIN streamLog :
               streamLog'[c] = IF c \in SeqToSet(batch) /\ c \in sockets
                                 THEN Append(streamLog[c], t.frameData)
                                 ELSE streamLog[c]
          /\ batchTimers' =
               IF t.batchIndex + 1 < Len(t.clientBatches)
                 THEN Append(Tail(batchTimers),
                             [t EXCEPT !.batchIndex = t.batchIndex + 1])
                 ELSE Tail(batchTimers)
  /\ lastEvent'.name # "batch" =>
       \/ batchTimers' = batchTimers
       \/ /\ lastEvent'.name = "data"
          /\ Len(batchTimers') = Len(batchTimers) + 1
          /\ SubSeq(batchTimers', 1, Len(batchTimers)) = batchTimers
          /\ batchTimers'[Len(batchTimers')].batchIndex = 1

\* C24: the batches of a frame are processed in index order, one continuation
\* after the other; a continuation is never dropped, whatever clients have
\* disconnected, and every pending continuation eventually runs; clients that
\* have disconnected receive nothing.
C24_ChainCompletes ==
  /\ [][C24_Step]_vars
  /\ \A k \in 1..MaxFrames :
       (Len(batchTimers) = k) ~> (Len(batchTimers) < k)

\* the continuation of a frame has run after the producer stopped and a
\* client of its batch left, and the client that left was sent nothing
C24_Witness ==
  /\ lastEvent.name = "batch"
  /\ ~running
  /\ \E c \in DOMAIN streamLog : c > MAX_CLIENTS_PER_FRAME /\ c \notin sockets
                                  /\ streamLog[c] = <<>>

\* the frame of the fan-out pass that a step runs: the frame just produced, or
\* the frame the continuation was set for
C25_PassFrame ==
  IF lastEvent'.name = "data"
    THEN [seq |-> totalFrames + 1, src |-> stream]
    ELSE Head(batchTimers).frameData

\* C25: delivery is never retried: in a fan-out pass a client whose socket is
\* closed is sent nothing and its frame queue is left as it was, and whatever a
\* client is sent in the pass is the frame of that pass, never an earlier one.
C25_NoRetry ==
  [][lastEvent'.name \in {"data", "batch"} =>
       \A c \in DOMAIN streamLog :
         /\ \/ streamLog'[c] = streamLog[c]
            \/ streamLog'[c] = Append(streamLog[c], C25_PassFrame)
         /\ c \notin sockets =>
              /\ streamLog'[c] = streamLog[c]
              /\ (c \in DOMAIN frameQueues') = (c \in DOMAIN frameQueues)
              /\ c \in DOMAIN frameQueues => frameQueues'[c] = frameQueues[c]]_vars

\* a continuation has run for a batch whose client had left: the client has no
\* queue and was sent nothing, while clients of the first batch have the frame
C25_Witness ==
  /\ lastEvent.name = "batch"
  /\ \E c \in DOMAIN streamLog \ sockets :
       /\ c > MAX_CLIENTS_PER_FRAME
       /\ c \notin DOMAIN frameQueues
       /\ streamLog[c] = <<>>
  /\ \E d \in sockets : streamLog[d] # <<>>

\* C26: whatever state the player is in, once no frame has been drawn for the
\* stall window (or none ever was) the player's next stall check, at most one
\* check interval later, reports the stall and sends stream-reconnect.
C26_StallDetected ==
  sinceLastFrameTime > STALL_WINDOW + STREAM_CHECK_INTERVAL => stalled

\* C27: a frame that was decoded and drawn, the first one included, leaves the
\* player connected with its status hidden and lastFrameTime set anew, and the
\* stall check sends stream-reconnect only if no frame was ever drawn or the
\* last one was drawn more than the stall window ago.
C27_ValidFrameResets ==
  [][/\ playerEvent'.name = "decoded" =>
          /\ player'.connectionStatus = "connected"
          /\ player'.statusEl = ""
          /\ player'.frameCount = player.frameCount + 1
          /\ sinceLastFrameTime' = 0
     /\ (playerEvent'.name = "check" /\ playerEvent'.sent # <<>>) =>
          (sinceValid = -1 \/ sinceValid > STALL_WINDOW)]_vars

\* the stall check has run after the first frame was drawn, less than the
\* stall window before, and sent nothing
C27_Witness ==
  /\ playerEvent.name = "check"
  /\ playerEvent.sent = <<>>
  /\ player.frameCount = 1
  /\ sinceValid # -1 /\ sinceValid < STALL_WINDOW

\* C28: at most one decode is in flight, processingFrame is set while one is,
\* and a unit that arrives while a decode is in flight is counted in
\* skippedFrames and not decoded.
C28_OneDecodeInFlight ==
  [][/\ Cardinality(decodes') <= 1
     /\ decodes' # {} => player'.processingFrame
     /\ (nextFrame' # nextFrame /\ decodes # {}) =>
          /\ playerEvent'.name = "skipped"
          /\ player'.skippedFrames = player.skippedFrames + 1
          /\ decodes' = decodes]_vars

\* C29: processingFrame is never set for longer than the frame timeout.
C29_FlagReleased ==
  player.processingFrame => sinceProcessing <= FRAME_TIMEOUT

\* the flag was released by the timeout while the decode had not settled
C29_Witness ==
  /\ playerEvent.name = "timeout"
  /\ ~player.processingFrame
  /\ playerEvent.frame \in decodes

\* C30: a unit that is too small or fails to decode changes neither frameCount,
\* lastFrameTime, the connection status nor the stall check, and when a frame
\* was drawn before, lastValidFrame is drawn again and stays usable.
C30_BadUnitDiscarded ==
  [][playerEvent'.name \in {"too-small", "decode-failed"} =>
       /\ player'.frameCount = player.frameCount
       /\ sinceLastFrameTime' = sinceLastFrameTime
       /\ player'.connectionStatus = player.connectionStatus
       /\ streamCheckInterval' = streamCheckInterval
       /\ player.frameCount > 0 =>
            /\ playerEvent'.redrew
            /\ player'.canvas = player'.lastValidFrame.frame
            /\ ~player'.lastValidFrame.detached]_vars

\* C31: while the player shows the message of a stream-error event, only a
\* stream-status event, another stream-error event or a decoded frame changes
\* what it shows: the stall check, the transport's connect event and all other
\* events leave the message in place.
C31_ErrorShownUntilRecovery ==
  [][(player.statusEl = "error"
        /\ playerEvent'.name \notin {"stream-status", "stream-error", "decoded"})
       => player'.statusEl = "error"]_vars

\* C32: start() is called only on a FrameSource instance that is not running:
\* a handler that calls start() without having built a new instance finds the
\* current one stopped.
C32_StartOnlyWhenStopped ==
  [][("start" \in SeqToSet(calls') /\ "new" \notin SeqToSet(calls')) => ~running]_vars

\* C33: at most one recovery restart timer is pending.
C33_OneRestartTimer == Len(restartTimers) <= 1

\* C34: every client that has a queue in frameQueues is registered in
\* activeClients; a continuation that lists a client that has left does not
\* make a queue for it.
C34_QueuesOfClientsOnly ==
  DOMAIN frameQueues \subseteq SeqToSet(activeClients)

\* a continuation has run for a batch that lists a client that is no longer
\* registered, while registered clients have their queues
C34_Witness ==
  /\ lastEvent.name = "batch"
  /\ DOMAIN frameQueues # {}
  /\ \E c \in DOMAIN streamLog \ SeqToSet(activeClients) :
       c > MAX_CLIENTS_PER_FRAME /\ streamLog[c] = <<>>

\* C35: the connection status is 'connected' only after a frame was decoded
\* and drawn; connect, config and stream-status events do not set it.
C35_ConnectedAfterFrame ==
  player.connectionStatus = "connected" => (player.frameCount >= 1 /\ sinceValid # -1)

\* the player has handled connect, stream-status or config events before any
\* frame, and later a frame made it connected
C35_Witness ==
  /\ player.connectionStatus = "connected"
  /\ playerEvent.name \in {"connect", "stream-status", "config"}

====
